---- MODULE Spec2Model ----
(***************************************************************************)
(* CascadeService of kafka-cascade: the lifecycle coordinator that wires a *)
(* CascadeConsumer to a CascadeProducer, keeps the list of retry-level     *)
(* topics and re-emits the components' events.                             *)
(*                                                                         *)
(* Two copies of the class are in the repository:                          *)
(*   "service"  : src/kafka-cascade/src/cascadeService.ts                  *)
(*   "part_000" : src/unnamed/part_000                                     *)
(* The variable impl says which of the two classes the modelled object is  *)
(* an instance of.  CascadeProducer, CascadeConsumer and the broker client *)
(* are not part of the sources; what they do is taken from spec.md.        *)
(***************************************************************************)
EXTENDS Integers, Sequences, FiniteSets, TLC

VARIABLES
    impl,              \* which class the object is an instance of
    topicsArr,         \* this.topicsArr
    retries,           \* this.retries
    producerHoldsArr,  \* producer.retryTopics is the very array this.topicsArr
    listeners,         \* event names with at least one handler registered by on()
    lastOn,            \* the most recent call of on(): its event name, and
                       \* whether it threw
    emitted,           \* the events the method calls emitted, in order (the
                       \* events of a message are in msgs[m].events)
    calls,             \* the method calls in progress, and the call that ended
                       \* last (a call's record is dropped once another call
                       \* starts or takes a step)
    started,           \* number of method calls made so far
    lastCount,         \* the count of the most recent setRetryLevels call
    resized,           \* "shrunk" once a setRetryLevels call has popped a name,
                       \* "regrown" once a later call has pushed one, else "none"
    msgs,              \* the messages, by id
    producer,          \* the CascadeProducer: connected, paused
    consumer,          \* the CascadeConsumer: connected, running, paused
    provisioned,       \* topic names admin.createTopics has created on the broker
    adminOpen          \* number of admin clients connected and not yet disconnected

vars == <<impl, topicsArr, retries, producerHoldsArr, listeners, lastOn, emitted,
          calls, started, lastCount, resized, msgs, producer, consumer, provisioned,
          adminOpen>>

\* the variables of the retry-level list
levelVars == <<topicsArr, retries, producerHoldsArr, lastCount, resized>>

\* the variables of the components
compVars == <<producer, consumer, provisioned, adminOpen>>

----------------------------------------------------------------------------
(* Bounds of the model *)

\* counts passed to setRetryLevels are drawn from 0..MaxCount
MaxCount == 2

\* at most MaxCalls method calls are made on the service in one behaviour
MaxCalls == 3

\* at most MaxInFlight method calls are in progress at a time
MaxInFlight == 2

\* number of messages sent to the source topic
MaxMsgs == 2

\* a message enters the source topic with a retries header in 0..MaxHeader
MaxHeader == 1

----------------------------------------------------------------------------
(* Data *)

\* constructor argument `topic`
topic == "t"

Impls == {"service", "part_000"}

\* this.topic + '-cascade-retry-' + (i+1), written with level = i+1
RetryName(level) == topic \o "-cascade-retry-" \o ToString(level)

\* the levels 1..n, each by its name
Levels(n) == [i \in 1..n |-> RetryName(i)]

\* the `events` field of the class
events ==
    IF impl = "service"
    THEN {"connect", "disconnect", "run", "stop", "pause", "resume", "receive",
          "success", "retry", "dlq", "error", "serviceError"}
    ELSE {"run", "stop", "pause", "resume", "receive", "success", "retry", "dlq",
          "error"}

\* the names handed to on() in the model
OnInputs == {"error", "bogus"}

\* producer.retryTopics: the array handed over by setRetryTopics, by reference
RetryTopics == IF producerHoldsArr THEN topicsArr ELSE <<>>

\* a call of a method of the service
\*   op      the method
\*   pending the calls into the components the method has started and whose
\*           promises have not settled yet ({}: the method's body has ended)
\*   promise the state of the returned promise ("none": nothing is returned)
\*   topics  registerTopics.topics of a setRetryLevels call, while its
\*           admin.createTopics is pending (it is not read afterwards)
\*   tr      what the call did so far, in order
NewCall(op, pending, promise, tr) ==
    [op |-> op, pending |-> pending, promise |-> promise, topics |-> <<>>,
     tr |-> tr]

CallIds == 1..Len(calls)

InProgress(c) == c.pending # {}

\* one more call can be made
CanCall ==
    /\ started < MaxCalls
    /\ Len(SelectSeq(calls, InProgress)) < MaxInFlight

\* `calls` once one more call is made
WithCall(c) == Append(SelectSeq(calls, InProgress), c)

\* `calls` once call id has taken a step that leaves it as c
WithStep(id, c) ==
    LET F[k \in 0..Len(calls)] ==
            IF k = 0 THEN <<>>
            ELSE IF k = id THEN Append(F[k - 1], c)
            ELSE IF InProgress(calls[k]) THEN Append(F[k - 1], calls[k])
            ELSE F[k - 1]
    IN  F[Len(calls)]

\* no count has been passed to setRetryLevels yet
NoCount == 0 - 1

Range(s) == {s[i] : i \in 1..Len(s)}

\* the message no event argument refers to
NoMsg == [id |-> 0, topic |-> "", retries |-> 0]

MsgIds == 1..MaxMsgs

\* a message not yet sent to the source topic
\*   state     new, queued (in a topic), processing (handed to the service
\*             callback), publishing (producer.send awaits the broker), success,
\*             dlq, dropped (its publish failed)
\*   topic     the topic it is in, or is being published to
\*   retries   its retries header
\*   first     the retries header it entered the source topic with
\*   attempts  how often the service callback was invoked with it
\*   fails     how often the service callback rejected it
\*   callback  how the failure callback of run() ended the last time
\*   invoked   the user callbacks invoked with it, in order
\*   events    the events emitted for it, in order
NewMsg == [state |-> "new", topic |-> "", retries |-> 0, first |-> 0,
           attempts |-> 0, fails |-> 0, callback |-> "none", invoked |-> <<>>,
           events |-> <<>>]

\* on() has not been called yet
NoOn == [name |-> "", threw |-> FALSE]

\* one emitted event: its name, the text of an error, the message handed over
Event(name, text, msg) == [name |-> name, text |-> text, msg |-> msg]

----------------------------------------------------------------------------
(* Initial state: the object as the constructor leaves it *)

Init ==
    /\ impl \in Impls
    /\ topicsArr = <<>>
    /\ retries = 0
    /\ producerHoldsArr = FALSE
    /\ listeners = {}
    /\ lastOn = NoOn
    /\ emitted = <<>>
    /\ calls = <<>>
    /\ started = 0
    /\ lastCount = NoCount
    /\ resized = "none"
    /\ msgs = [m \in MsgIds |-> NewMsg]
    /\ producer = [connected |-> FALSE, paused |-> FALSE]
    /\ consumer = [connected |-> FALSE, running |-> FALSE, paused |-> FALSE]
    /\ provisioned = {}
    /\ adminOpen = 0

----------------------------------------------------------------------------
(* on(event, callback) *)

\* on() without the test of this.events
OnUnchecked(name) ==
    /\ listeners' = listeners \cup {name}
    /\ lastOn' = [name |-> name, threw |-> FALSE]
    /\ UNCHANGED <<impl, levelVars, emitted, calls, started, msgs, compVars>>

\* on(): throws if the name is not in this.events, else super.on
On(name) ==
    /\ IF name \in events
       THEN /\ listeners' = listeners \cup {name}
            /\ lastOn' = [name |-> name, threw |-> FALSE]
       ELSE /\ listeners' = listeners
            /\ lastOn' = [name |-> name, threw |-> TRUE]
    /\ UNCHANGED <<impl, levelVars, emitted, calls, started, msgs, compVars>>

----------------------------------------------------------------------------
(* setRetryLevels *)

\* the resize with the push loop starting at 0 instead of this.retries
ResizeFromZero(arr, r, count) ==
    IF Len(arr) > count
    THEN SubSeq(arr, 1, Len(arr) - (Len(arr) - count))
    ELSE arr \o [j \in 1..count |-> RetryName(j)]

\* the resize left after the first round of its loop: one name popped or
\* pushed
ResizeOneRound(arr, r, count) ==
    IF Len(arr) > count
    THEN SubSeq(arr, 1, Len(arr) - 1)
    ELSE arr \o [j \in 1..(IF count > r THEN 1 ELSE 0) |-> RetryName(r + j)]

\* the resize of this.topicsArr: pop while longer than count, else push the
\* names of the levels this.retries+1 .. count
Resize(arr, r, count) ==
    IF Len(arr) > count
    THEN SubSeq(arr, 1, Len(arr) - (Len(arr) - count))
    ELSE arr \o [j \in 1..(IF count > r THEN count - r ELSE 0) |-> RetryName(r + j)]

\* the synchronous head of setRetryLevels: resize, producer.setRetryTopics,
\* this.retries = count
SetLevels(count) ==
    /\ topicsArr' = Resize(topicsArr, retries, count)
    /\ producerHoldsArr' = TRUE
    /\ retries' = count
    /\ lastCount' = count
    /\ resized' = IF Len(topicsArr') < Len(topicsArr) THEN "shrunk"
                  ELSE IF Len(topicsArr') > Len(topicsArr) /\ resized = "shrunk"
                  THEN "regrown"
                  ELSE resized

\* setRetryLevels(count) of cascadeService.ts, up to its first await
SetRetryLevels(count) ==
    /\ impl = "service"
    /\ CanCall
    /\ started' = started + 1
    /\ SetLevels(count)
    /\ calls' = WithCall(NewCall("setRetryLevels", {"admin.connect"}, "pending",
                                 <<"call admin.connect">>))
    /\ UNCHANGED <<impl, lastOn, listeners, emitted, msgs, compVars>>

\* setRetryLevels(count) of part_000: synchronous, returns nothing
P0SetRetryLevels(count) ==
    /\ impl = "part_000"
    /\ CanCall
    /\ started' = started + 1
    /\ SetLevels(count)
    /\ calls' = WithCall(NewCall("setRetryLevels", {}, "none", <<>>))
    /\ UNCHANGED <<impl, lastOn, listeners, emitted, msgs, compVars>>

----------------------------------------------------------------------------
(* The asynchronous methods of cascadeService.ts *)

\* the calls awaited, with disconnect releasing the producer before stopping it
AwaitsReleaseFirst(op) ==
    CASE op = "connect"        -> <<"producer.connect", "consumer.connect">>
      [] op = "disconnect"     -> <<"producer.disconnect", "producer.stop",
                                    "consumer.disconnect">>
      [] op = "setRetryLevels" -> <<"admin.connect", "admin.createTopics",
                                    "admin.listTopics", "admin.disconnect",
                                    "setTimeout">>
      [] op = "run"            -> <<"consumer.run">>
      [] op = "stop"           -> <<"consumer.stop", "producer.stop">>
      [] op = "pause"          -> <<"consumer.pause">>
      [] op = "resume"         -> <<"consumer.resume", "producer.resume">>

\* the calls awaited, with setRetryLevels not listing the topics
AwaitsNoListing(op) ==
    CASE op = "connect"        -> <<"producer.connect", "consumer.connect">>
      [] op = "disconnect"     -> <<"producer.stop", "producer.disconnect",
                                    "consumer.disconnect">>
      [] op = "setRetryLevels" -> <<"admin.connect", "admin.createTopics",
                                    "admin.disconnect", "setTimeout">>
      [] op = "run"            -> <<"consumer.run">>
      [] op = "stop"           -> <<"consumer.stop", "producer.stop">>
      [] op = "pause"          -> <<"consumer.pause">>
      [] op = "resume"         -> <<"consumer.resume", "producer.resume">>

\* the calls a method awaits, in the order of its body
Awaits(op) ==
    CASE op = "connect"        -> <<"producer.connect", "consumer.connect">>
      [] op = "disconnect"     -> <<"producer.stop", "producer.disconnect",
                                    "consumer.disconnect">>
      [] op = "setRetryLevels" -> <<"admin.connect", "admin.createTopics",
                                    "admin.listTopics", "admin.disconnect",
                                    "setTimeout">>
      [] op = "run"            -> <<"consumer.run">>
      [] op = "stop"           -> <<"consumer.stop", "producer.stop">>
      [] op = "pause"          -> <<"consumer.pause">>
      [] op = "resume"         -> <<"consumer.resume", "producer.resume">>

\* the event a method emits when its body reaches the end of the try block
EmitsOnSuccess(op) == op # "setRetryLevels"

\* what a call into a component does to it when it succeeds
ProducerAfter(sub) ==
    CASE sub = "producer.connect"    -> [producer EXCEPT !.connected = TRUE]
      [] sub = "producer.disconnect" -> [producer EXCEPT !.connected = FALSE]
      [] sub = "producer.pause"      -> [producer EXCEPT !.paused = TRUE]
      [] sub = "producer.resume"     -> [producer EXCEPT !.paused = FALSE]
      [] OTHER                       -> producer

ConsumerAfter(sub) ==
    CASE sub = "consumer.connect"    -> [consumer EXCEPT !.connected = TRUE]
      [] sub = "consumer.disconnect" -> [consumer EXCEPT !.connected = FALSE,
                                                         !.running = FALSE]
      [] sub = "consumer.run"        -> [consumer EXCEPT !.running = TRUE]
      [] sub = "consumer.stop"       -> [consumer EXCEPT !.running = FALSE]
      [] sub = "consumer.pause"      -> [consumer EXCEPT !.paused = TRUE]
      [] sub = "consumer.resume"     -> [consumer EXCEPT !.paused = FALSE]
      [] OTHER                       -> consumer

AdminOpenAfter(sub) ==
    CASE sub = "admin.connect"    -> adminOpen + 1
      [] sub = "admin.disconnect" -> adminOpen - 1
      [] OTHER                    -> adminOpen

IndexOf(seq, x) == CHOOSE i \in 1..Len(seq) : seq[i] = x

\* a method that only starts its first call: connect, disconnect, run, stop
Start(op) ==
    /\ impl = "service"
    /\ CanCall
    /\ started' = started + 1
    /\ calls' = WithCall(NewCall(op, {Awaits(op)[1]}, "pending",
                                 <<"call " \o Awaits(op)[1]>>))
    /\ UNCHANGED <<impl, lastOn, levelVars, listeners, emitted, msgs, compVars>>

Connect == Start("connect")

Disconnect == Start("disconnect")

Run == Start("run")

Stop == Start("stop")

\* the text the catch block of a method puts before the error
ErrorText(op) ==
    IF impl = "service" THEN "Error in cascade." \o op \o "(): " ELSE ""

\* the catch block of a method: emit('error', ...) then reject(error).  emit
\* throws when no handler is registered for 'error', and reject is not reached
Catch(id, sub) ==
    LET c == calls[id]
        failed == Append(c.tr, "fail " \o sub)
    IN  IF "error" \in listeners
        THEN /\ emitted' = Append(emitted, Event("error", ErrorText(c.op), NoMsg))
             /\ calls' = WithStep(id,
                    [c EXCEPT !.pending = {}, !.promise = "rejected",
                              !.tr = failed \o <<"emit error", "reject">>])
        ELSE /\ emitted' = emitted
             /\ calls' = WithStep(id,
                    [c EXCEPT !.pending = {}, !.tr = Append(failed, "throw")])

\* the body of a method from the await of `sub`, which succeeded, to the next
\* await or to the end of the try block
Continue(id, sub) ==
    LET c == calls[id]
        seq == Awaits(c.op)
        i == IndexOf(seq, sub)
        tr1 == Append(c.tr, "ok " \o sub)
    IN  /\ consumer' = ConsumerAfter(sub)
        /\ adminOpen' = AdminOpenAfter(sub)
        /\ provisioned' = IF sub = "admin.createTopics"
                          THEN provisioned \cup Range(c.topics)
                          ELSE provisioned
        /\ producer' = IF c.op = "pause"
                       THEN ProducerAfter("producer.pause")
                       ELSE ProducerAfter(sub)
        /\ IF i < Len(seq)
           THEN /\ calls' = WithStep(id,
                       [c EXCEPT !.pending = {seq[i + 1]},
                                 !.topics = IF sub = "admin.connect"
                                            THEN topicsArr ELSE <<>>,
                                 !.tr = Append(tr1, "call " \o seq[i + 1])])
                /\ emitted' = emitted
           ELSE /\ calls' = WithStep(id,
                       [c EXCEPT !.pending = {}, !.promise = "resolved",
                                 !.tr = tr1
                                    \o (IF c.op = "pause"
                                        THEN <<"call producer.pause">> ELSE <<>>)
                                    \o (IF EmitsOnSuccess(c.op)
                                        THEN <<"emit " \o c.op>> ELSE <<>>)
                                    \o <<"resolve">>])
                /\ emitted' = IF EmitsOnSuccess(c.op)
                              THEN Append(emitted, Event(c.op, "", NoMsg))
                              ELSE emitted

\* the promise of an awaited call settles: fulfilled (ok) or rejected
Settle(id, sub, ok) ==
    /\ impl = "service"
    /\ sub \in calls[id].pending
    /\ sub = "setTimeout" => ok
    /\ IF ok
       THEN Continue(id, sub)
       ELSE /\ Catch(id, sub)
            /\ UNCHANGED compVars
    /\ UNCHANGED <<impl, lastOn, levelVars, listeners, started, msgs>>

\* pause() without the test of producer.paused
PauseUnguarded ==
    /\ impl = "service"
    /\ CanCall
    /\ started' = started + 1
    /\ calls' = WithCall(NewCall("pause", {"consumer.pause"}, "pending",
                                 <<"call consumer.pause">>))
    /\ UNCHANGED <<impl, lastOn, levelVars, listeners, emitted, msgs, compVars>>

\* pause(): guarded by producer.paused
Pause ==
    /\ impl = "service"
    /\ CanCall
    /\ started' = started + 1
    /\ calls' = WithCall(
          IF ~producer.paused
          THEN NewCall("pause", {"consumer.pause"}, "pending",
                       <<"call consumer.pause">>)
          ELSE NewCall("pause", {}, "resolved", <<"log">>))
    /\ UNCHANGED <<impl, lastOn, levelVars, listeners, emitted, msgs, compVars>>

\* resume(): guarded by producer.paused
Resume ==
    /\ impl = "service"
    /\ CanCall
    /\ started' = started + 1
    /\ calls' = WithCall(
          IF producer.paused
          THEN NewCall("resume", {"consumer.resume"}, "pending",
                       <<"call consumer.resume">>)
          ELSE NewCall("resume", {}, "resolved", <<"log">>))
    /\ UNCHANGED <<impl, lastOn, levelVars, listeners, emitted, msgs, compVars>>

----------------------------------------------------------------------------
(* The methods of the class in part_000 *)

\* connect(): Promise.all([producer.connect(), consumer.connect()])
P0Connect ==
    /\ impl = "part_000"
    /\ CanCall
    /\ started' = started + 1
    /\ calls' = WithCall(
          NewCall("connect", {"producer.connect", "consumer.connect"}, "pending",
                  <<"call producer.connect", "call consumer.connect">>))
    /\ UNCHANGED <<impl, lastOn, levelVars, listeners, emitted, msgs, compVars>>

\* run(): up to the await of consumer.run
P0Run ==
    /\ impl = "part_000"
    /\ CanCall
    /\ started' = started + 1
    /\ calls' = WithCall(NewCall("run", {"consumer.run"}, "pending",
                                 <<"call consumer.run">>))
    /\ UNCHANGED <<impl, lastOn, levelVars, listeners, emitted, msgs, compVars>>

\* stop(), pause(), resume(): this.emit(op) and nothing else
P0EmitOnly(op) ==
    /\ impl = "part_000"
    /\ CanCall
    /\ started' = started + 1
    /\ calls' = WithCall(NewCall(op, {}, "none", <<"emit " \o op>>))
    /\ emitted' = Append(emitted, Event(op, "", NoMsg))
    /\ UNCHANGED <<impl, lastOn, levelVars, listeners, msgs, compVars>>

P0Stop == P0EmitOnly("stop")

P0Pause == P0EmitOnly("pause")

P0Resume == P0EmitOnly("resume")

\* one of the promises connect() or run() waits for settles
P0Settle(id, sub, ok) ==
    LET c == calls[id]
        left == c.pending \ {sub}
    IN  /\ impl = "part_000"
        /\ sub \in c.pending
        /\ IF ok
           THEN /\ producer' = ProducerAfter(sub)
                /\ consumer' = ConsumerAfter(sub)
                /\ IF c.op = "run"
                   THEN /\ emitted' = Append(emitted, Event("run", "", NoMsg))
                        /\ calls' = WithStep(id,
                              [c EXCEPT !.pending = {}, !.promise = "resolved",
                                        !.tr = @ \o <<"ok " \o sub, "emit run",
                                                      "resolve">>])
                   ELSE /\ emitted' = emitted
                        /\ calls' = WithStep(id,
                              [c EXCEPT !.pending = left,
                                        !.promise = IF left = {} /\ @ = "pending"
                                                    THEN "resolved" ELSE @,
                                        !.tr = Append(@, "ok " \o sub)])
           ELSE /\ UNCHANGED <<producer, consumer>>
                /\ IF c.op = "run"
                   THEN Catch(id, sub)
                   ELSE /\ emitted' = emitted
                        /\ calls' = WithStep(id,
                              [c EXCEPT !.pending = left,
                                        !.promise = IF @ = "pending"
                                                    THEN "rejected" ELSE @,
                                        !.tr = Append(@, "fail " \o sub)])
        /\ UNCHANGED <<impl, lastOn, levelVars, listeners, started, msgs, provisioned,
                       adminOpen>>

----------------------------------------------------------------------------
(* The consume loop that run() wires up *)

\* the message as the event handlers see it
MsgOf(m) == [id |-> m, topic |-> msgs[m].topic, retries |-> msgs[m].retries]

\* the forwarding with the handlers of retry and dlq interchanged
ForwardedSwapped(name) ==
    CASE name = "retry" -> "dlq"
      [] name = "dlq"   -> "retry"
      [] OTHER          -> name

\* the constructor's forwarding of the components' events: the event the
\* service emits when a component emits `name`
Forwarded(name) == name

\* CascadeProducer.send: the destination of a failed message whose retries
\* header is k
Route(k) ==
    IF k < Len(RetryTopics)
    THEN [to |-> "retry", topic |-> RetryTopics[k + 1], retries |-> k + 1]
    ELSE [to |-> "dlq", topic |-> "", retries |-> k]

\* a client outside the service sends a message to the source topic
Produce(m, k) ==
    /\ msgs[m].state = "new"
    /\ msgs' = [msgs EXCEPT ![m] =
          [@ EXCEPT !.state = "queued", !.topic = topic, !.retries = k,
                    !.first = k]]
    /\ UNCHANGED <<impl, lastOn, levelVars, listeners, emitted, calls, started, compVars>>

\* the consumer takes the message from its topic, emits receive (forwarded by
\* the service) and invokes the service callback
Receive(m) ==
    /\ impl = "service"
    /\ consumer.running
    /\ ~consumer.paused
    /\ msgs[m].state = "queued"
    /\ msgs' = [msgs EXCEPT ![m] =
          [@ EXCEPT !.state = "processing", !.attempts = @ + 1,
                    !.events = Append(@, Event(Forwarded("receive"), "", MsgOf(m)))]]
    /\ UNCHANGED <<impl, lastOn, levelVars, listeners, emitted, calls, started, compVars>>

\* the success callback without its emit
SuccessSilent(m) ==
    [msgs[m] EXCEPT !.state = "success", !.invoked = Append(@, "successCB")]

\* the success callback run() hands to the consumer: emit success, successCB
SuccessPath(m) ==
    [msgs[m] EXCEPT !.state = "success",
                    !.events = Append(@, Event("success", "", MsgOf(m))),
                    !.invoked = Append(@, "successCB")]

\* the service callback resolves
ServiceResolve(m) ==
    /\ impl = "service"
    /\ msgs[m].state = "processing"
    /\ msgs' = [msgs EXCEPT ![m] = SuccessPath(m)]
    /\ UNCHANGED <<impl, lastOn, levelVars, listeners, emitted, calls, started, compVars>>

\* CascadeProducer.send(msg) up to its first await: it starts the publish to
\* the next retry level, or takes the dead-letter path (dlqCB, then dlq, which
\* the service forwards)
Send(m) ==
    LET r == Route(msgs[m].retries)
    IN  IF r.to = "retry"
        THEN [msgs[m] EXCEPT !.state = "publishing", !.fails = @ + 1,
                             !.topic = r.topic, !.retries = r.retries,
                             !.callback = "pending"]
        ELSE [msgs[m] EXCEPT !.state = "dlq", !.fails = @ + 1,
                             !.invoked = Append(@, "dlqCB"),
                             !.events = Append(@,
                                 Event(Forwarded("dlq"), "", MsgOf(m))),
                             !.callback = "returned"]

\* the failure callback without its call of producer.send
FailureDropped(m) ==
    [msgs[m] EXCEPT !.state = "dropped", !.fails = @ + 1, !.callback = "returned"]

\* the failure callback run() hands to the consumer, up to its await
FailurePath(m) == Send(m)

\* the service callback rejects
ServiceReject(m) ==
    /\ impl = "service"
    /\ msgs[m].state = "processing"
    /\ msgs' = [msgs EXCEPT ![m] = FailurePath(m)]
    /\ UNCHANGED <<impl, lastOn, levelVars, listeners, emitted, calls, started, compVars>>

\* the publish that producer.send awaits settles.  Fulfilled: the producer
\* emits retry with the outgoing message (forwarded by the service) and the
\* message is in the retry topic.  Rejected: the promise of producer.send
\* rejects into the catch block of the failure callback, whose emit('error')
\* throws when no handler is registered for 'error'
PublishSettle(m, ok) ==
    /\ impl = "service"
    /\ msgs[m].state = "publishing"
    /\ msgs' = [msgs EXCEPT ![m] =
          IF ok
          THEN [@ EXCEPT !.state = "queued", !.callback = "returned",
                         !.events = Append(@,
                             Event(Forwarded("retry"), "", MsgOf(m)))]
          ELSE IF "error" \in listeners
          THEN [@ EXCEPT !.state = "dropped", !.callback = "returned",
                         !.events = Append(@,
                             Event("error", "Error in cascade producer.send(): ",
                                   MsgOf(m)))]
          ELSE [@ EXCEPT !.state = "dropped", !.callback = "rejected"]]
    /\ UNCHANGED <<impl, lastOn, levelVars, listeners, emitted, calls, started, compVars>>

----------------------------------------------------------------------------
(* The consume loop that run() of part_000 wires up.  The constructor of
   part_000 registers no handler on the producer or the consumer, so the
   service re-emits none of their events *)

\* the consumer takes the message from its topic and invokes the service
\* callback
P0Receive(m) ==
    /\ impl = "part_000"
    /\ consumer.running
    /\ ~consumer.paused
    /\ msgs[m].state = "queued"
    /\ msgs' = [msgs EXCEPT ![m] =
          [@ EXCEPT !.state = "processing", !.attempts = @ + 1]]
    /\ UNCHANGED <<impl, lastOn, levelVars, listeners, emitted, calls, started, compVars>>

\* the service callback resolves: the consumer invokes this.successCB, which
\* run() handed over as it is
P0ServiceResolve(m) ==
    /\ impl = "part_000"
    /\ msgs[m].state = "processing"
    /\ msgs' = [msgs EXCEPT ![m] =
          [@ EXCEPT !.state = "success", !.invoked = Append(@, "successCB")]]
    /\ UNCHANGED <<impl, lastOn, levelVars, listeners, emitted, calls, started, compVars>>

\* the service callback rejects: the failure callback calls producer.send
\* without awaiting it, and returns
P0ServiceReject(m) ==
    /\ impl = "part_000"
    /\ msgs[m].state = "processing"
    /\ msgs' = [msgs EXCEPT ![m] =
          [Send(m) EXCEPT !.events = msgs[m].events, !.callback = "returned"]]
    /\ UNCHANGED <<impl, lastOn, levelVars, listeners, emitted, calls, started, compVars>>

\* the publish that producer.send awaits settles; nothing awaits the promise
\* of producer.send
P0PublishSettle(m, ok) ==
    /\ impl = "part_000"
    /\ msgs[m].state = "publishing"
    /\ msgs' = [msgs EXCEPT ![m] =
          [@ EXCEPT !.state = IF ok THEN "queued" ELSE "dropped"]]
    /\ UNCHANGED <<impl, lastOn, levelVars, listeners, emitted, calls, started, compVars>>

----------------------------------------------------------------------------
(* Specifications *)

Subs == {"producer.connect", "producer.disconnect", "producer.stop",
         "producer.resume", "consumer.connect", "consumer.disconnect",
         "consumer.run", "consumer.stop", "consumer.pause", "consumer.resume",
         "admin.connect", "admin.createTopics", "admin.listTopics",
         "admin.disconnect", "setTimeout"}

\* the retry-level configuration alone, with handlers registered under names
\* of this.events
NextLevels ==
    \/ \E name \in OnInputs \cap events : On(name)
    \/ \E count \in 0..MaxCount : SetRetryLevels(count)
    \/ \E count \in 0..MaxCount : P0SetRetryLevels(count)
    \/ \E id \in CallIds, sub \in Subs, ok \in BOOLEAN : Settle(id, sub, ok)

SpecLevels == Init /\ [][NextLevels]_vars

\* the lifecycle methods
NextLife ==
    \/ \E name \in OnInputs : On(name)
    \/ Connect
    \/ Disconnect
    \/ Run
    \/ Stop
    \/ Pause
    \/ Resume
    \/ \E id \in CallIds, sub \in Subs, ok \in BOOLEAN : Settle(id, sub, ok)
    \/ P0Connect
    \/ P0Run
    \/ P0Stop
    \/ P0Pause
    \/ P0Resume
    \/ \E id \in CallIds, sub \in Subs, ok \in BOOLEAN : P0Settle(id, sub, ok)

SpecLife == Init /\ [][NextLife]_vars

\* pause() and resume() alone
NextPause ==
    \/ \E name \in OnInputs : On(name)
    \/ Pause
    \/ Resume
    \/ \E id \in CallIds, sub \in Subs, ok \in BOOLEAN : Settle(id, sub, ok)

InitService == Init /\ impl = "service"

SpecPause == InitService /\ [][NextPause]_vars

\* the service after setRetryLevels(n), connect() and run() have resolved, as
\* startService leaves it
InitRunning ==
    /\ impl = "service"
    /\ \E n \in 0..MaxCount :
          /\ topicsArr = Levels(n)
          /\ retries = n
          /\ lastCount = n
          /\ resized = "none"
          /\ provisioned = Range(Levels(n))
    /\ producerHoldsArr = TRUE
    /\ listeners = {}
    /\ lastOn = NoOn
    /\ emitted = <<Event("connect", "", NoMsg), Event("run", "", NoMsg)>>
    /\ calls = <<>>
    /\ started = 3
    /\ msgs = [m \in MsgIds |-> NewMsg]
    /\ producer = [connected |-> TRUE, paused |-> FALSE]
    /\ consumer = [connected |-> TRUE, running |-> TRUE, paused |-> FALSE]
    /\ adminOpen = 0

\* the cascade of the messages through a running service
NextCascade ==
    \/ \E name \in OnInputs : On(name)
    \/ \E m \in MsgIds, k \in 0..MaxHeader : Produce(m, k)
    \/ \E m \in MsgIds : Receive(m)
    \/ \E m \in MsgIds : ServiceResolve(m)
    \/ \E m \in MsgIds : ServiceReject(m)
    \/ \E m \in MsgIds, ok \in BOOLEAN : PublishSettle(m, ok)

SpecCascade == InitRunning /\ [][NextCascade]_vars

\* the message that is followed while the retry levels change
Followed == {CHOOSE m \in MsgIds : \A k \in MsgIds : m <= k}

\* pause() and resume() with the producer's pause() and resume() as the flag
\* toggles of spec.md 4.2, which do not fail: the calls that can fail are
\* consumer.pause and consumer.resume
NextToggle ==
    \/ \E name \in OnInputs : On(name)
    \/ Pause
    \/ Resume
    \/ \E id \in CallIds, sub \in Subs, ok \in BOOLEAN :
          /\ sub = "producer.resume" => ok
          /\ Settle(id, sub, ok)

SpecToggle == InitService /\ [][NextToggle]_vars

\* the retry levels are configured, and configured again, while run() is
\* called and a message, sent without a retries header as sendMessage does,
\* cascades
NextResize ==
    \/ \E count \in 0..MaxCount : SetRetryLevels(count)
    \/ Run
    \/ \E id \in CallIds, sub \in Subs, ok \in BOOLEAN : Settle(id, sub, ok)
    \/ \E m \in Followed : Produce(m, 0)
    \/ \E m \in Followed : Receive(m)
    \/ \E m \in Followed : ServiceResolve(m)
    \/ \E m \in Followed : ServiceReject(m)
    \/ \E m \in Followed, ok \in BOOLEAN : PublishSettle(m, ok)

SpecResize == InitService /\ [][NextResize]_vars

\* both classes: the levels are configured, run() is called and a message
\* goes through the consume loop
NextConsume ==
    \/ \E count \in 0..MaxCount : SetRetryLevels(count)
    \/ \E count \in 0..MaxCount : P0SetRetryLevels(count)
    \/ Run
    \/ P0Run
    \/ \E id \in CallIds, sub \in Subs, ok \in BOOLEAN : Settle(id, sub, ok)
    \/ \E id \in CallIds, sub \in Subs, ok \in BOOLEAN : P0Settle(id, sub, ok)
    \/ \E m \in Followed, k \in 0..MaxHeader : Produce(m, k)
    \/ \E m \in Followed : Receive(m)
    \/ \E m \in Followed : ServiceResolve(m)
    \/ \E m \in Followed : ServiceReject(m)
    \/ \E m \in Followed, ok \in BOOLEAN : PublishSettle(m, ok)
    \/ \E m \in Followed : P0Receive(m)
    \/ \E m \in Followed : P0ServiceResolve(m)
    \/ \E m \in Followed : P0ServiceReject(m)
    \/ \E m \in Followed, ok \in BOOLEAN : P0PublishSettle(m, ok)

SpecConsume == Init /\ [][NextConsume]_vars

----------------------------------------------------------------------------
(* Properties *)

CallsInProgress == SelectSeq(calls, InProgress)

\* the events of message m that have one of the names
EventsOf(m, names) ==
    LET Named(e) == e.name \in names IN SelectSeq(msgs[m].events, Named)

\* number of retry levels of the running service
N == Len(RetryTopics)

\* C1: after the call setRetryLevels(count) has run, whatever calls came
\* before it and whatever became of their provisioning, this.topicsArr and the
\* list the producer routes with hold exactly the names
\* t-cascade-retry-1 .. t-cascade-retry-count, in this order.
C1_LevelsAfterSetRetryLevels ==
    lastCount # NoCount =>
        /\ Len(topicsArr) = lastCount
        /\ \A i \in 1..lastCount : topicsArr[i] = RetryName(i)
        /\ RetryTopics = topicsArr

\* the list has grown, shrunk and grown again to two levels or more, the
\* provisioning of an earlier call has failed and two calls overlap
C1_Witness ==
    /\ resized = "regrown"
    /\ lastCount >= 2
    /\ topicsArr = Levels(lastCount)
    /\ Len(CallsInProgress) >= 2
    /\ \E i \in 1..Len(emitted) : emitted[i].name = "error"

\* C2 as stated: every failure of a message is followed by exactly one of
\* the two outcomes, a retry event or a dlq event.
C2_EveryFailureRouted ==
    \A m \in MsgIds :
        msgs[m].state # "publishing" =>
            Len(EventsOf(m, {"retry", "dlq"})) = msgs[m].fails

\* C2 amended: a failed message with retries = k is published to level k+1
\* with retries k+1 if k < N, and a retry event is emitted once that publish
\* has succeeded; if k >= N nothing is published, dlqCB is invoked and dlq is
\* emitted.  At most one of the two happens per failure, and exactly one
\* unless the publish is pending or has failed.
C2_Routing ==
    \A m \in MsgIds :
        LET ev == msgs[m].events
            routed == Len(EventsOf(m, {"retry", "dlq"}))
        IN  /\ \A i \in 1..Len(ev) :
                  ev[i].name = "retry" =>
                      /\ i > 1
                      /\ ev[i - 1].name = "receive"
                      /\ ev[i - 1].msg.retries < N
                      /\ ev[i].msg.retries = ev[i - 1].msg.retries + 1
                      /\ ev[i].msg.topic = RetryName(ev[i - 1].msg.retries + 1)
            /\ \A i \in 1..Len(ev) :
                  ev[i].name = "dlq" =>
                      /\ i > 1
                      /\ i = Len(ev)
                      /\ ev[i - 1].name = "receive"
                      /\ ev[i - 1].msg.retries >= N
                      /\ ev[i].msg = ev[i - 1].msg
                      /\ msgs[m].state = "dlq"
            /\ msgs[m].invoked = IF msgs[m].state = "dlq" THEN <<"dlqCB">>
                                 ELSE IF msgs[m].state = "success"
                                 THEN <<"successCB">> ELSE <<>>
            /\ msgs[m].state = "publishing" =>
                  /\ msgs[m].retries <= N
                  /\ msgs[m].topic = RetryName(msgs[m].retries)
            /\ routed = IF msgs[m].state \in {"publishing", "dropped"}
                        THEN msgs[m].fails - 1 ELSE msgs[m].fails

\* one message went through a retry level to the dead-letter path, another
\* one was dropped because its publish failed
C2_Witness ==
    \E m1, m2 \in MsgIds :
        /\ msgs[m1].state = "dlq"
        /\ Len(EventsOf(m1, {"retry"})) >= 1
        /\ msgs[m2].state = "dropped"

\* the call made by the step that has just been taken
LastCall == calls[Len(calls)]

\* C3: pause() called while producer.paused is true, and resume() called
\* while it is false, change neither producer.paused nor the consumer, call
\* neither consumer.pause nor consumer.resume, emit nothing, and return a
\* promise that is resolved.
C3_RedundantPauseResume ==
    [][(started' = started + 1 /\ calls' # <<>>) =>
          LET c == calls'[Len(calls')]
          IN  (\/ c.op = "pause" /\ producer.paused
               \/ c.op = "resume" /\ ~producer.paused) =>
                  /\ producer' = producer
                  /\ consumer' = consumer
                  /\ emitted' = emitted
                  /\ c.pending = {}
                  /\ c.promise = "resolved"
                  /\ c.tr = <<"log">>]_vars

\* pause() has just returned without doing anything, the service being paused
C3_Witness ==
    /\ calls # <<>>
    /\ LastCall.op = "pause"
    /\ LastCall.tr = <<"log">>
    /\ producer.paused
    /\ consumer.paused
    /\ \E i \in 1..Len(emitted) : emitted[i].name = "pause"

\* position of the first x in seq, 0 if there is none
First(seq, x) ==
    IF \E i \in 1..Len(seq) : seq[i] = x
    THEN CHOOSE i \in 1..Len(seq) : seq[i] = x /\ \A j \in 1..(i - 1) : seq[j] # x
    ELSE 0

\* x occurs in seq, and before every y
Before(seq, x, y) ==
    /\ First(seq, x) > 0
    /\ First(seq, y) > 0 => First(seq, x) < First(seq, y)

\* an awaited call of the method call c has failed
Failed(c) == \E sub \in Subs : First(c.tr, "fail " \o sub) > 0

\* C4: in every connect(), consumer.connect is started only after
\* producer.connect has succeeded, never once producer.connect has failed, and
\* connect is emitted only after both have succeeded.
C4_ProducerBeforeConsumer ==
    \A id \in CallIds :
        calls[id].op = "connect" =>
            LET tr == calls[id].tr
            IN  /\ First(tr, "call consumer.connect") > 0 =>
                      Before(tr, "ok producer.connect", "call consumer.connect")
                /\ First(tr, "fail producer.connect") > 0 =>
                      First(tr, "call consumer.connect") = 0
                /\ First(tr, "emit connect") > 0 =>
                      /\ Before(tr, "ok producer.connect", "emit connect")
                      /\ Before(tr, "ok consumer.connect", "emit connect")


\* the source topic and at the levels 1..f: receive and retry in turns, then
\* the receive at level f
Cascade(m, f) ==
    [i \in 1..(2 * f + 1) |->
        IF i % 2 = 1
        THEN Event("receive", "",
                   [id |-> m, retries |-> (i - 1) \div 2,
                    topic |-> IF i = 1 THEN topic ELSE RetryName((i - 1) \div 2)])
        ELSE Event("retry", "",
                   [id |-> m, retries |-> i \div 2, topic |-> RetryName(i \div 2)])]

\* C5: a message that entered the source topic with retries 0, failed f
\* times and then succeeded has f <= N and was routed source, retry-1, ...,
\* retry-f in this order: its events are the receive at each of these topics,
\* each but the last followed by the retry to the next level, then exactly one
\* success; no dlq event and no dlqCB.
C5_FailThenSucceed ==
    \A m \in MsgIds :
        (msgs[m].first = 0 /\ msgs[m].state = "success") =>
            LET f == msgs[m].fails
                last == IF f = 0 THEN topic ELSE RetryName(f)
            IN  /\ f <= N
                /\ msgs[m].events = Append(Cascade(m, f),
                       Event("success", "",
                             [id |-> m, retries |-> f, topic |-> last]))
                /\ msgs[m].invoked = <<"successCB">>

\* a message has failed at the source topic and at level 1 and succeeded at
\* level 2
C5_Witness ==
    \E m \in MsgIds :
        /\ msgs[m].first = 0
        /\ msgs[m].state = "success"
        /\ msgs[m].fails = 2
        /\ msgs[m].topic = RetryName(2)

\* C6: a message that entered the source topic with retries 0 is handed to
\* the service callback at most N+1 times; once it has failed N+1 times (at
\* the source topic and at every level) it is on the dead-letter path for
\* good: its events are the receive at the source and at each level, each but
\* the last followed by the retry to the next level, then exactly one dlq, no
\* success, and it was processed exactly N+1 times.
C6_ExhaustedToDlq ==
    \A m \in MsgIds :
        msgs[m].first = 0 =>
            /\ msgs[m].attempts <= N + 1
            /\ msgs[m].fails <= N + 1
            /\ (msgs[m].fails = N + 1 \/ msgs[m].state = "dlq") =>
                  /\ msgs[m].state = "dlq"
                  /\ msgs[m].fails = N + 1
                  /\ msgs[m].attempts = N + 1
                  /\ msgs[m].events = Append(Cascade(m, N),
                         Event("dlq", "",
                               [id |-> m, retries |-> N,
                                topic |-> IF N = 0 THEN topic ELSE RetryName(N)]))
                  /\ msgs[m].invoked = <<"dlqCB">>

\* with one level or more, a message has failed everywhere and is dead
C6_Witness ==
    \E m \in MsgIds :
        /\ N >= 1
        /\ msgs[m].first = 0
        /\ msgs[m].state = "dlq"
        /\ msgs[m].attempts = N + 1

\* C7: a connect() in which producer.connect or consumer.connect has failed
\* emits no connect event and leaves the service Disconnected: neither the
\* producer nor the consumer is connected afterwards.
C7_FailedConnectDisconnected ==
    (/\ impl = "service"
     /\ started = 1
     /\ calls # <<>>
     /\ LastCall.op = "connect"
     /\ LastCall.pending = {}
     /\ Failed(LastCall)) =>
        /\ ~producer.connected
        /\ ~consumer.connected
        /\ \A i \in 1..Len(emitted) : emitted[i].name # "connect"

\* C8: a method call in which an awaited call has failed has rejected its
\* promise and emitted error, whatever handlers are registered.
C8_FailureRejectsAndEmits ==
    \A id \in CallIds :
        (impl = "service" /\ calls[id].pending = {} /\ Failed(calls[id])) =>
            /\ calls[id].promise = "rejected"
            /\ First(calls[id].tr, "emit error") > 0
            /\ \E i \in 1..Len(emitted) : emitted[i].name = "error"

\* C9: when the publish of a failed message fails, the failure callback
\* returns normally and an error event is emitted for the message, whatever
\* handlers are registered.
C9_PublishFailureContained ==
    \A m \in MsgIds :
        /\ msgs[m].callback # "rejected"
        /\ msgs[m].state = "dropped" =>
              /\ msgs[m].events # <<>>
              /\ msgs[m].events[Len(msgs[m].events)].name = "error"

LifecycleOps == {"connect", "run", "pause", "resume", "stop", "disconnect"}

\* the state of the service in the state machine of its lifecycle events
ServiceState ==
    LET Lifecycle(e) == e.name \in LifecycleOps
        ev == SelectSeq(emitted, Lifecycle)
        last == ev[Len(ev)].name
    IN  IF ev = <<>> THEN "Disconnected"
        ELSE CASE last = "connect"    -> "Connected"
               [] last = "run"        -> "Running"
               [] last = "resume"     -> "Running"
               [] last = "pause"      -> "Paused"
               [] last = "stop"       -> "Stopped"
               [] last = "disconnect" -> "Disconnected"

\* the transitions of the state machine: the operation, from, to
Transitions ==
    {<<"connect", "Disconnected", "Connected">>,
     <<"run", "Connected", "Running">>,
     <<"pause", "Running", "Paused">>,
     <<"resume", "Paused", "Running">>,
     <<"stop", "Connected", "Stopped">>,
     <<"stop", "Running", "Stopped">>,
     <<"stop", "Paused", "Stopped">>,
     <<"disconnect", "Stopped", "Disconnected">>}

HasTransition(op, from) == \E t \in Transitions : t[1] = op /\ t[2] = from

\* C10: the service changes state only along the transitions of the state
\* machine, and a lifecycle method called in a state that has no transition
\* for it starts no call into the consumer or the producer and emits nothing.
C10_OnlyStateMachineTransitions ==
    [][/\ ServiceState' # ServiceState =>
             \E t \in Transitions : t[2] = ServiceState /\ t[3] = ServiceState'
       /\ (started' = started + 1 /\ calls' # <<>>) =>
             LET c == calls'[Len(calls')]
             IN  (c.op \in LifecycleOps /\ ~HasTransition(c.op, ServiceState)) =>
                     /\ c.pending = {}
                     /\ emitted' = emitted]_vars

\* the fixed set of event names of the event surface
EventSurface ==
    {"connect", "disconnect", "run", "stop", "pause", "resume", "receive",
     "success", "retry", "dlq", "error", "serviceError"}

\* C11: on(name, handler) with a name outside the fixed set of event names
\* throws and leaves the registered handlers as they were; no handler is ever
\* registered under a name outside the set, so that no later event can invoke
\* one.
C11_UnknownEventThrows ==
    /\ [](impl = "service" =>
            /\ listeners \subseteq EventSurface
            /\ lastOn.name # "" => (lastOn.threw <=> lastOn.name \notin EventSurface))
    /\ [][(impl = "service" /\ lastOn' # lastOn /\ lastOn'.name \notin EventSurface) =>
              /\ lastOn'.threw
              /\ listeners' = listeners]_vars

\* on() has thrown for an unknown name while a handler of error was
\* registered, and an error event has been emitted
C11_Witness ==
    /\ impl = "service"
    /\ lastOn.threw
    /\ lastOn.name \notin EventSurface
    /\ listeners = {"error"}
    /\ emitted # <<>>
    /\ emitted[Len(emitted)].name = "error"

\* C12: in every stop(), producer.stop is started only after consumer.stop
\* has succeeded, never once consumer.stop has failed, and stop is emitted only
\* after both have succeeded.
C12_ConsumerStopsBeforeProducer ==
    \A id \in CallIds :
        calls[id].op = "stop" =>
            LET tr == calls[id].tr
            IN  /\ First(tr, "call producer.stop") > 0 =>
                      Before(tr, "ok consumer.stop", "call producer.stop")
                /\ First(tr, "fail consumer.stop") > 0 =>
                      First(tr, "call producer.stop") = 0
                /\ First(tr, "emit stop") > 0 =>
                      /\ Before(tr, "ok consumer.stop", "emit stop")
                      /\ Before(tr, "ok producer.stop", "emit stop")

\* C13: in every disconnect(), the calls are producer.stop,
\* producer.disconnect, consumer.disconnect in this order, each started only
\* after the one before it has succeeded; disconnect is emitted only after all
\* three have succeeded; when one of them fails, no later one is started, the
\* catch block emits error (the emitter hands it to the handlers of error, or
\* throws it when there is none) and disconnect is not emitted.
C13_DisconnectOrder ==
    \A id \in CallIds :
        calls[id].op = "disconnect" =>
            LET tr == calls[id].tr
                seq == <<"producer.stop", "producer.disconnect", "consumer.disconnect">>
            IN  /\ \A i \in 2..3 :
                      First(tr, "call " \o seq[i]) > 0 =>
                          Before(tr, "ok " \o seq[i - 1], "call " \o seq[i])
                /\ \A i \in 1..3 :
                      First(tr, "ok " \o seq[i]) > 0 =>
                          Before(tr, "call " \o seq[i], "ok " \o seq[i])
                /\ First(tr, "emit disconnect") > 0 =>
                      /\ \A i \in 1..3 : Before(tr, "ok " \o seq[i], "emit disconnect")
                      /\ ~Failed(calls[id])
                /\ Failed(calls[id]) =>
                      /\ First(tr, "emit disconnect") = 0
                      /\ \A i \in 1..3 : \A j \in (i + 1)..3 :
                            First(tr, "fail " \o seq[i]) > 0 =>
                                First(tr, "call " \o seq[j]) = 0
                      /\ First(tr, "emit error") > 0 \/ First(tr, "throw") > 0

\* one disconnect() has gone through its three calls and emitted disconnect,
\* and another one has failed at producer.disconnect
C13_Witness ==
    /\ impl = "service"
    /\ \E i \in 1..Len(emitted) : emitted[i].name = "disconnect"
    /\ calls # <<>>
    /\ LastCall.op = "disconnect"
    /\ First(LastCall.tr, "fail producer.disconnect") > 0
    /\ First(LastCall.tr, "emit error") > 0

\* the complete list of the most recent setRetryLevels call (the empty list
\* of the constructor if there was none)
CompleteList == IF lastCount = NoCount THEN <<>> ELSE Levels(lastCount)

\* a send has run for message m in the step
SendRan(m) ==
    /\ msgs[m].state = "processing"
    /\ msgs'[m].state \notin {"processing", "success"}

\* C14: at every point at which send can run, with setRetryLevels calls in
\* progress or not, the list the producer routes with is a complete list, never
\* one partly popped or partly pushed; a send routes its message against that
\* list as a whole (level retries+1 of it, or the dead-letter path if it has
\* no such level), and no step both resizes the list and routes a message.
C14_SendSeesCompleteList ==
    /\ [](RetryTopics = CompleteList)
    /\ [][\A m \in MsgIds :
             SendRan(m) =>
                 LET k == msgs[m].retries
                     L == RetryTopics
                 IN  /\ L = CompleteList
                     /\ RetryTopics' = L
                     /\ IF k < Len(L)
                        THEN /\ msgs'[m].state = "publishing"
                             /\ msgs'[m].topic = L[k + 1]
                             /\ msgs'[m].topic = RetryName(k + 1)
                             /\ msgs'[m].retries = k + 1
                        ELSE /\ msgs'[m].state = "dlq"
                             /\ msgs'[m].retries = k]_vars

\* a message went to level 1 of a list, the list was then shrunk to one level
\* by a setRetryLevels call that is still in progress, and the message, failing
\* again, was routed to the dead-letter path
C14_Witness ==
    /\ \E id \in CallIds : calls[id].op = "setRetryLevels" /\ InProgress(calls[id])
    /\ resized = "shrunk"
    /\ lastCount = 1
    /\ \E m \in MsgIds :
          /\ msgs[m].first = 0
          /\ msgs[m].state = "dlq"
          /\ msgs[m].retries = 1

\* what a setRetryLevels call has done when its promise resolves
ProvisioningDone ==
    <<"call admin.connect", "ok admin.connect",
      "call admin.createTopics", "ok admin.createTopics",
      "call admin.listTopics", "ok admin.listTopics",
      "call admin.disconnect", "ok admin.disconnect",
      "call setTimeout", "ok setTimeout", "resolve">>

Resolved(m) ==
    /\ msgs[m].state = "processing"
    /\ msgs'[m].state = "success"

\* C16: when the service callback resolves for a message, the service emits
\* success with that message and the user success callback is invoked with it,
\* once each, and producer.send is not invoked: the message is not counted as
\* failed, nothing is published and no retry or dlq follows.
C16_SuccessEmittedOnce ==
    /\ [](\A m \in MsgIds :
             msgs[m].state = "success" =>
                 /\ Len(EventsOf(m, {"success"})) = 1
                 /\ msgs[m].events[Len(msgs[m].events)].name = "success"
                 /\ msgs[m].invoked = <<"successCB">>)
    /\ [][\A m \in MsgIds :
             Resolved(m) =>
                 /\ msgs'[m].events = Append(msgs[m].events,
                                             Event("success", "", MsgOf(m)))
                 /\ msgs'[m].invoked = Append(msgs[m].invoked, "successCB")
                 /\ msgs'[m].fails = msgs[m].fails
                 /\ msgs'[m].topic = msgs[m].topic
                 /\ msgs'[m].retries = msgs[m].retries]_vars

\* the pause and resume events emitted so far, in order
PauseResumeEvents ==
    LET Toggles(e) == e.name \in {"pause", "resume"} IN SelectSeq(emitted, Toggles)

\* the calls in progress that have invoked `sub` and await it
Awaiting(sub) == {id \in CallIds : sub \in calls[id].pending}

\* C17: whatever pause() and resume() calls overlap, the pause and resume
\* events alternate, the first one being pause, and consumer.pause is not
\* invoked a second time while an earlier invocation has not been followed by
\* consumer.resume (in particular not while the earlier one is still awaited).
C17_PauseResumeAlternate ==
    /\ \A i \in 1..Len(PauseResumeEvents) :
          PauseResumeEvents[i].name = IF i % 2 = 1 THEN "pause" ELSE "resume"
    /\ Cardinality(Awaiting("consumer.pause")) <= 1
    /\ Cardinality(Awaiting("consumer.resume")) <= 1

\* C18: whenever no pause() or resume() call is in progress, the consumer is
\* paused if and only if producer.paused is true, also after calls that have
\* failed at consumer.pause or consumer.resume and after calls that overlapped.
C18_PauseFlagsAgree ==
    CallsInProgress = <<>> => (consumer.paused <=> producer.paused)

\* C19: while the consume loop runs, so that send can run, every name of the
\* list the producer routes with has been created by a completed createTopics,
\* and no message is being published to a topic that has not been created.
C19_RoutingListProvisioned ==
    /\ consumer.running => Range(RetryTopics) \subseteq provisioned
    /\ \A m \in MsgIds :
          msgs[m].state = "publishing" => msgs[m].topic \in provisioned

\* the promise of the method call c has resolved or rejected
Settled(c) == c.promise \in {"resolved", "rejected"}

\* C20: a setRetryLevels call whose promise has settled has disconnected the
\* admin client it connected, whether it resolved or rejected; once the only
\* call made on the service has settled, no admin client is connected.
C20_AdminDisconnected ==
    \A id \in CallIds :
        (calls[id].op = "setRetryLevels" /\ Settled(calls[id])) =>
            /\ First(calls[id].tr, "ok admin.connect") > 0 =>
                  Before(calls[id].tr, "ok admin.connect", "ok admin.disconnect")
            /\ started = 1 => adminOpen = 0

====
